---- MODULE Spec2Model ----
(***************************************************************************)
(* Interval-notation and numeric-literal grammar of drjutils.              *)
(*                                                                         *)
(* The repository holds two generations of the interval code:              *)
(*   - src/drjutils/common/intervals.py  (with common/numbers.py), whose   *)
(*     definitions keep their source names here;                           *)
(*   - src/drjutils/common/types/strings/d_intervals.py (with d_ints.py),  *)
(*     whose definitions carry the prefix d_ here.                         *)
(*                                                                         *)
(* Strings are sequences of one-character strings.  Regular expressions    *)
(* are modelled by the language they denote, read with their evident       *)
(* syntax: `(?<name>...)` is a named group and the `+?` that opens an      *)
(* alternative of flt_rgx_str is an optional literal plus sign.            *)
(***************************************************************************)
EXTENDS Integers, Sequences, FiniteSets, TLC

VARIABLES parts, text, op, arg, res

vars == <<parts, text, op, arg, res>>

(***************************************************************************)
(* Characters and strings                                                  *)
(***************************************************************************)
Digits == {"0", "1", "2", "3", "4", "5", "6", "7", "8", "9"}

HexDigits == Digits \cup {"a", "b", "c", "d", "e", "f"}

BinDigits == {"0", "1"}

OctDigits == {"0", "1", "2", "3", "4", "5", "6", "7"}

Signs == {"+", "-"}

\* `\s` and `[\t ]`: the inputs of the model hold the space as their only
\* whitespace character.
Space == {" "}

Word == Digits \cup {"a", "b", "c", "d", "e", "f", "i", "n", "o", "t", "x", "y", "E", "X"}

\* `[\w\t .+-]` of _invl_bkts
BktsClass == Word \cup Space \cup {".", "+", "-"}

\* Code point of a character, the order Python compares str values by.
Ord(c) ==
    CASE c = " " -> 32 [] c = "(" -> 40 [] c = ")" -> 41 [] c = "+" -> 43
      [] c = "-" -> 45 [] c = "." -> 46
      [] c = "0" -> 48 [] c = "1" -> 49 [] c = "2" -> 50 [] c = "3" -> 51
      [] c = "4" -> 52 [] c = "5" -> 53 [] c = "6" -> 54 [] c = "7" -> 55
      [] c = "8" -> 56 [] c = "9" -> 57
      [] c = "E" -> 69 [] c = "X" -> 88 [] c = "[" -> 91 [] c = "]" -> 93
      [] c = "a" -> 97 [] c = "b" -> 98 [] c = "c" -> 99 [] c = "d" -> 100
      [] c = "e" -> 101 [] c = "f" -> 102 [] c = "i" -> 105 [] c = "n" -> 110
      [] c = "o" -> 111 [] c = "t" -> 116 [] c = "x" -> 120 [] c = "y" -> 121

DigitVal(c) == Ord(c) - 48

\* The substring s[i..j] (1-based, inclusive); empty when j < i.
Sub(s, i, j) == IF j < i THEN << >> ELSE SubSeq(s, i, j)

AllIn(s, S) == \A i \in 1..Len(s) : s[i] \in S

\* Python's str > str: lexicographic by code point, a proper prefix is smaller.
RECURSIVE StrGt(_, _)
StrGt(a, b) ==
    IF a = << >> THEN FALSE
    ELSE IF b = << >> THEN TRUE
    ELSE IF Ord(Head(a)) # Ord(Head(b)) THEN Ord(Head(a)) > Ord(Head(b))
    ELSE StrGt(Tail(a), Tail(b))

\* Number of leading / trailing whitespace characters of s.
RECURSIVE LeadWs(_)
LeadWs(s) == IF s # << >> /\ Head(s) \in Space THEN 1 + LeadWs(Tail(s)) ELSE 0

RECURSIVE TrailWs(_)
TrailWs(s) ==
    IF s # << >> /\ s[Len(s)] \in Space THEN 1 + TrailWs(Sub(s, 1, Len(s) - 1)) ELSE 0

LStrip(s) == Sub(s, LeadWs(s) + 1, Len(s))

RStrip(s) == Sub(s, 1, Len(s) - TrailWs(s))

\* Value of a run of decimal digits (0 for the empty run).
RECURSIVE DecVal(_)
DecVal(s) == IF s = << >> THEN 0 ELSE 10 * DecVal(Sub(s, 1, Len(s) - 1)) + DigitVal(s[Len(s)])

RECURSIVE Pow10(_)
Pow10(n) == IF n <= 0 THEN 1 ELSE 10 * Pow10(n - 1)

(***************************************************************************)
(* Shape of a decimal literal: sign? int-digits [. frac-digits] [e exp]    *)
(***************************************************************************)
HasSign(s) == s # << >> /\ Head(s) \in Signs

Unsigned(s) == IF HasSign(s) THEN Tail(s) ELSE s

\* Index of the first character of s that lies in S, 0 if there is none.
FirstIn(s, S) ==
    IF \E i \in 1..Len(s) : s[i] \in S
    THEN CHOOSE i \in 1..Len(s) : s[i] \in S /\ \A j \in 1..(i - 1) : s[j] \notin S
    ELSE 0

\* Split of an unsigned literal body at its exponent marker.
Mantissa(u, E) == IF FirstIn(u, E) = 0 THEN u ELSE Sub(u, 1, FirstIn(u, E) - 1)

HasExp(u, E) == FirstIn(u, E) # 0

Exponent(u, E) == Sub(u, FirstIn(u, E) + 1, Len(u))

IntPart(m) == IF FirstIn(m, {"."}) = 0 THEN m ELSE Sub(m, 1, FirstIn(m, {"."}) - 1)

HasDot(m) == FirstIn(m, {"."}) # 0

FracPart(m) == IF HasDot(m) THEN Sub(m, FirstIn(m, {"."}) + 1, Len(m)) ELSE << >>

\* `\d+`
IsDigits1(s) == s # << >> /\ AllIn(s, Digits)

\* `\d*`
IsDigits0(s) == AllIn(s, Digits)

\* `[eE][+-]?\d+` after the marker: `[+-]?\d+`
IsExpDigits(x) == IsDigits1(Unsigned(x))

(***************************************************************************)
(* Python values: str, int, float and None                                 *)
(***************************************************************************)
None == [py |-> "None"]

Str(s) == [py |-> "str", s |-> s]

\* A finite number is m * 10^x; k tells a finite value from inf, -inf and nan.
Num(t, k, m, x) == [py |-> t, k |-> k, m |-> m, x |-> x]

IsNum(v) == v.py \in {"int", "float"}

\* m1 * 10^x1 compared with m2 * 10^x2 on a common exponent.
Scaled(v, low) == v.m * Pow10(v.x - low)

MinX(a, b) == IF a.x < b.x THEN a.x ELSE b.x

\* Python's > on two numbers (every comparison with nan is False).
NumGt(a, b) ==
    IF a.k = "nan" \/ b.k = "nan" THEN FALSE
    ELSE IF a.k = "inf" THEN b.k # "inf"
    ELSE IF a.k = "-inf" THEN FALSE
    ELSE IF b.k = "inf" THEN FALSE
    ELSE IF b.k = "-inf" THEN TRUE
    ELSE Scaled(a, MinX(a, b)) > Scaled(b, MinX(a, b))

NumEq(a, b) ==
    IF a.k = "nan" \/ b.k = "nan" THEN FALSE
    ELSE IF a.k # "fin" \/ b.k # "fin" THEN a.k = b.k
    ELSE Scaled(a, MinX(a, b)) = Scaled(b, MinX(a, b))

NumLe(a, b) ==
    IF a.k = "nan" \/ b.k = "nan" THEN FALSE ELSE ~NumGt(a, b)

\* Outcome of a call: a returned value or the exception it raised.
Raise(e) == [kind |-> e]

Return(v) == [kind |-> "ok", v |-> v]

Raised(r) == r.kind # "ok"

\* int(s) / float(s) of a decimal literal: sign, digits, fraction, exponent.
SignOf(s) == IF HasSign(s) /\ Head(s) = "-" THEN -1 ELSE 1

ExpVal(u, E) ==
    IF HasExp(u, E)
    THEN SignOf(Exponent(u, E)) * DecVal(Unsigned(Exponent(u, E)))
    ELSE 0

\* A Python int has no width: one of ten digits or more is kept in two
\* limbs, m * Limb + x, both carrying the sign.
Limb == Pow10(8)

DecimalValue(t, s, E) ==
    LET u == Unsigned(s)
        m == Mantissa(u, E)
        BigInt(sign, ds) ==
            [py |-> "int", k |-> "big",
             m |-> sign * DecVal(Sub(ds, 1, Len(ds) - 8)),
             x |-> sign * DecVal(Sub(ds, Len(ds) - 7, Len(ds)))]
    IN  IF t = "int" /\ Len(m) > 9 THEN BigInt(SignOf(s), m)
        ELSE Num(t, "fin",
                 SignOf(s) * DecVal(IntPart(m) \o FracPart(m)),
                 ExpVal(u, E) - Len(FracPart(m)))

(***************************************************************************)
(* common/numbers.py: the numeric patterns and to_number                   *)
(***************************************************************************)
ExpMarks == {"e", "E"}

\* `\d*\.?\d+`
MantOpl(m) ==
    \/ ~HasDot(m) /\ IsDigits1(m)
    \/ HasDot(m) /\ IsDigits0(IntPart(m)) /\ IsDigits1(FracPart(m))

\* `\d+\.?\d*`
MantOpt(m) == IsDigits1(IntPart(m)) /\ IsDigits0(FracPart(m))

\* `(?:[eE][+-]?\d+)?`
ExpOpt(u) == ~HasExp(u, ExpMarks) \/ IsExpDigits(Exponent(u, ExpMarks))

\* num_opl_rgx_str = [+-]?\d*\.?\d+(?:[eE][+-]?\d+)?
num_opl_rgx_str(s) ==
    MantOpl(Mantissa(Unsigned(s), ExpMarks)) /\ ExpOpt(Unsigned(s))

\* num_opt_rgx_str = [+-]?\d+\.?\d*(?:[eE][+-]?\d+)?
num_opt_rgx_str(s) ==
    MantOpt(Mantissa(Unsigned(s), ExpMarks)) /\ ExpOpt(Unsigned(s))

\* num_rlx_rgx_str = [+-]?(?:\d*\.?\d+|\d+\.\d*)(?:[eE][+-]?\d+)?
num_rlx_rgx_str(s) ==
    LET m == Mantissa(Unsigned(s), ExpMarks)
    IN  /\ MantOpl(m) \/ (HasDot(m) /\ IsDigits1(IntPart(m)) /\ IsDigits0(FracPart(m)))
        /\ ExpOpt(Unsigned(s))

\* int_rgx = ^([+-]?\d+)$
int_rgx(s) == IsDigits1(Unsigned(s))

\* `[1-9]\d*`
IsNonZeroLed(s) == IsDigits1(s) /\ Head(s) # "0"

\* flt_rgx = ^([+-]?(?:\d+\.\d+|[1-9](?:\.\d+)?[eE](?:+?\d+|-[1-9]\d*)))$
flt_rgx(s) ==
    LET u == Unsigned(s)
        m == Mantissa(u, ExpMarks)
        x == Exponent(u, ExpMarks)
    IN  \/ /\ ~HasExp(u, ExpMarks)
           /\ HasDot(m) /\ IsDigits1(IntPart(m)) /\ IsDigits1(FracPart(m))
        \/ /\ HasExp(u, ExpMarks)
           /\ Len(IntPart(m)) = 1 /\ IsNonZeroLed(IntPart(m))
           /\ ~HasDot(m) \/ IsDigits1(FracPart(m))
           /\ \/ IsDigits1(x)
              \/ x # << >> /\ Head(x) = "+" /\ IsDigits1(Tail(x))
              \/ x # << >> /\ Head(x) = "-" /\ IsNonZeroLed(Tail(x))

\* flt_bsc_rlx_rgx = ^([+-]?(?:\d+\.\d*|\d*\.\d*[1-9]\d*))$
flt_bsc_rlx_rgx(s) ==
    LET NonZero(f) == \E i \in 1..Len(f) : f[i] # "0"
        Body(u) ==
            /\ HasDot(u)
            /\ \/ IsDigits1(IntPart(u)) /\ IsDigits0(FracPart(u))
               \/ IsDigits0(IntPart(u)) /\ IsDigits0(FracPart(u)) /\ NonZero(FracPart(u))
    IN  Body(Unsigned(s))

\* to_number: re.match on a value that is not a str raises TypeError.
to_number(num) ==
    IF num.py # "str" THEN Raise("TypeError")
    ELSE IF int_rgx(num.s) THEN Return(DecimalValue("int", num.s, ExpMarks))
    ELSE IF flt_rgx(num.s) THEN Return(DecimalValue("float", num.s, ExpMarks))
    ELSE Raise("ValueError")

\* `to_number(a) > to_number(b)`: the left operand is evaluated first and
\* an exception of either call propagates.
ToNumberGt(a, b) ==
    LET Compare(x, y) ==
            IF Raised(x) THEN x
            ELSE IF Raised(y) THEN y
            ELSE Return(NumGt(x.v, y.v))
    IN  Compare(to_number(a), to_number(b))

ToNumberLe(a, b) ==
    LET Compare(x, y) ==
            IF Raised(x) THEN x
            ELSE IF Raised(y) THEN y
            ELSE Return(NumLe(x.v, y.v))
    IN  Compare(to_number(a), to_number(b))

\* num_rgx = ^([+-]?(?:\d+(?:\.\d+)?|[1-9](?:\.\d+)?[eE][+-]\d+))$
num_rgx(s) ==
    LET Body(u, m, x) ==
            \/ /\ ~HasExp(u, ExpMarks)
               /\ IsDigits1(IntPart(m))
               /\ ~HasDot(m) \/ IsDigits1(FracPart(m))
            \/ /\ HasExp(u, ExpMarks)
               /\ Len(IntPart(m)) = 1 /\ IsNonZeroLed(IntPart(m))
               /\ ~HasDot(m) \/ IsDigits1(FracPart(m))
               /\ x # << >> /\ Head(x) \in Signs /\ IsDigits1(Tail(x))
        Magnitude(u) == Body(u, Mantissa(u, ExpMarks), Exponent(u, ExpMarks))
    IN  Magnitude(Unsigned(s))

\* is_float, is_int, is_number of numbers.py: the pattern matched or not
is_float(num) == Return(flt_rgx(num.s))

is_int(num) == Return(int_rgx(num.s))

is_number(num) == Return(num_rgx(num.s))

(***************************************************************************)
(* common/intervals.py                                                     *)
(***************************************************************************)
LeftBrackets == {"[", "("}

RightBrackets == {"]", ")"}

\* The text between the optional brackets and the whitespace around them:
\* `^\s*([\[(])?\s*` is taken from the left, `\s*([\])])?\s*$` from the right.
\* No bound starts or ends with whitespace or a bracket, so the greedy
\* reading is the only one.
HasLb(s) == LStrip(s) # << >> /\ Head(LStrip(s)) \in LeftBrackets

AfterLb(s) == IF HasLb(s) THEN LStrip(Tail(LStrip(s))) ELSE LStrip(s)

HasRb(s) == RStrip(s) # << >> /\ RStrip(s)[Len(RStrip(s))] \in RightBrackets

BeforeRb(s) ==
    IF HasRb(s) THEN RStrip(Sub(RStrip(s), 1, Len(RStrip(s)) - 1)) ELSE RStrip(s)

LbOf(s) == IF HasLb(s) THEN Str(<<Head(LStrip(s))>>) ELSE None

RbOf(s) == IF HasRb(s) THEN Str(<<RStrip(s)[Len(RStrip(s))]>>) ELSE None

Core(s) == BeforeRb(AfterLb(s))

\* Positions k of the core where a two-dot separator can stand.
DotDotAt(c, k) == k >= 1 /\ k + 1 <= Len(c) /\ c[k] = "." /\ c[k + 1] = "."

Before(c, k) == Sub(c, 1, k - 1)

After(c, k) == Sub(c, k + 2, Len(c))

\* _invl_rlx_spc_rgx_str = (num_opl)\.\.(num_opt)
RlxSplit(c, k) ==
    DotDotAt(c, k) /\ num_opl_rgx_str(Before(c, k)) /\ num_opt_rgx_str(After(c, k))

\* _invl_sct_spc_rgx_str = (num_rlx)\s+\.\.\s+(num_rlx)
SctSplit(c, k) ==
    /\ DotDotAt(c, k)
    /\ TrailWs(Before(c, k)) >= 1 /\ LeadWs(After(c, k)) >= 1
    /\ num_rlx_rgx_str(RStrip(Before(c, k))) /\ num_rlx_rgx_str(LStrip(After(c, k)))

\* The greedy first group wins: the rightmost separator position that matches.
LastSplit(c, P(_, _)) ==
    IF \E k \in 1..Len(c) : P(c, k)
    THEN CHOOSE k \in 1..Len(c) : P(c, k) /\ \A j \in (k + 1)..Len(c) : ~P(c, j)
    ELSE 0

NoMatch == [kind |-> "None"]

\* interval_rgx.fullmatch: the six groups of interval_rgx_str, or no match.
\* groups = (lb, opl min, opt max, rlx min, rlx max, rb)
interval_rgx(s) ==
    LET Groups(c, kr, ks, lb, rb) ==
            IF kr # 0
            THEN [kind |-> "match",
                  groups |-> <<lb, Str(Before(c, kr)), Str(After(c, kr)), None, None, rb>>]
            ELSE IF ks # 0
            THEN [kind |-> "match",
                  groups |-> <<lb, None, None, Str(RStrip(Before(c, ks))),
                               Str(LStrip(After(c, ks))), rb>>]
            ELSE NoMatch
        Split(c) ==
            Groups(c, LastSplit(c, RlxSplit), LastSplit(c, SctSplit),
                   LbOf(s), RbOf(AfterLb(s)))
    IN  Split(Core(s))

\* check_interval_str_match: groups[i] of the source is groups[i + 1] here.
check_interval_str_match(interval) ==
    LET InOrder(match, gt) ==
            IF Raised(gt) THEN gt
            ELSE IF gt.v THEN Raise("ValueError")
            ELSE Return(match)
        Check(match, groups) ==
            IF groups[1] # None
            THEN InOrder(match, ToNumberGt(groups[2], groups[3]))
            ELSE InOrder(match, ToNumberGt(groups[5], groups[6]))
        Matched(match) ==
            IF match = NoMatch THEN Raise("ValueError")
            ELSE Check(match, match.groups)
    IN  Matched(interval_rgx(interval))

\* sympy's Interval, as the record of the arguments it is constructed from.
Interval(start, end, left_open, right_open) ==
    [start |-> start, end |-> end, left_open |-> left_open, right_open |-> right_open]

\* to_interval: `a, b, c, d = match.groups()` raises ValueError unless the
\* match has exactly four groups.
to_interval(interval) ==
    LET Build(groups, start, end) ==
            IF Raised(start) THEN start
            ELSE IF Raised(end) THEN end
            ELSE Return(Interval(start.v, end.v,
                                 groups[1] = Str(<<"(">>), groups[4] = Str(<<")">>)))
        Unpack(groups) ==
            IF Len(groups) # 4 THEN Raise("ValueError")
            ELSE Build(groups, to_number(groups[2]), to_number(groups[3]))
        Checked(match) ==
            IF Raised(match) THEN match ELSE Unpack(match.v.groups)
    IN  Checked(check_interval_str_match(interval))

\* is_int_interval: isinstance(interval.start, int)
is_int_interval(interval) == Return(interval.start.py = "int")

\* is_float_interval: not(is_int_interval(interval))
is_float_interval(interval) == Return(~is_int_interval(interval).v)

\* is_interval_str: match.group(2) and match.group(3) are the bounds of the
\* unspaced alternative.
is_interval_str(interval) ==
    LET Matched(match) ==
            IF match = NoMatch THEN Return(FALSE)
            ELSE ToNumberLe(match.groups[2], match.groups[3])
    IN  Matched(interval_rgx(interval))

(***************************************************************************)
(* common/numbers.py: format_number, and intervals.py: format_interval     *)
(***************************************************************************)
DigitChar(d) == CHOOSE c \in Digits : DigitVal(c) = d

\* str(n) of a natural number
RECURSIVE NatStr(_)
NatStr(n) == IF n < 10 THEN <<DigitChar(n)>> ELSE NatStr(n \div 10) \o <<DigitChar(n % 10)>>

IntStr(n) == IF n < 0 THEN <<"-">> \o NatStr(-n) ELSE NatStr(n)

RECURSIVE Zeros(_)
Zeros(n) == IF n <= 0 THEN << >> ELSE <<"0">> \o Zeros(n - 1)

\* m * 10^x with the trailing zeros of m moved into the exponent
RECURSIVE Normal(_)
Normal(v) ==
    IF v.m # 0 /\ v.m % 10 = 0 THEN Normal([v EXCEPT !.m = v.m \div 10, !.x = v.x + 1])
    ELSE IF v.m = 0 THEN [v EXCEPT !.x = 0]
    ELSE v

\* float.is_integer()
IsInteger(v) == v.k = "fin" /\ Normal(v).x >= 0

Abs(n) == IF n < 0 THEN -n ELSE n

\* f"{flt:.15g}" of a value that is not integral and has at most 15
\* significant digits: fixed notation for decimal exponents -4..14,
\* otherwise d[.ddd]e-XX with at least two exponent digits.
SciExp(e) ==
    <<"e">> \o (IF e < 0 THEN <<"-">> ELSE <<"+">>)
            \o (IF Abs(e) < 10 THEN <<"0">> ELSE << >>) \o NatStr(Abs(e))

General15(v) ==
    LET n    == Normal(v)
        ds   == NatStr(Abs(n.m))
        e    == Len(ds) - 1 + n.x
        sign == IF n.m < 0 THEN <<"-">> ELSE << >>
    IN  IF e < -4
        THEN sign \o <<Head(ds)>>
                  \o (IF Len(ds) > 1 THEN <<".">> \o Tail(ds) ELSE << >>) \o SciExp(e)
        ELSE IF e < 0
        THEN sign \o <<"0", ".">> \o Zeros(-e - 1) \o ds
        ELSE sign \o Sub(ds, 1, e + 1) \o <<".">> \o Sub(ds, e + 2, Len(ds))

\* 2^53 in two limbs <<high, low>>: up to it every integer is a double
\* (the mantissa of a CPython float has 53 bits).
MantissaLimit == <<90071992, 54740992>>

\* flt = float(num) of an int of two limbs v: the nearest double, a tie going
\* to the even mantissa.  Neighbouring doubles are 1 apart below 2^53 and
\* twice as far at every power of two above it.
FloatOfInt(v) ==
    LET Less(a, b) == a[1] < b[1] \/ (a[1] = b[1] /\ a[2] < b[2])
        Half(w) == <<w[1] \div 2, ((w[1] % 2) * Limb + w[2]) \div 2>>
        RECURSIVE Spacing(_)
        Spacing(w) == IF Less(w, MantissaLimit) THEN 1 ELSE 2 * Spacing(Half(w))
        Round(u) ==
            LET r   == v[2] % u
                q   == (v[2] - r) \div u
                up  == 2 * r > u \/ (2 * r = u /\ q % 2 = 1)
                low == IF up THEN v[2] - r + u ELSE v[2] - r
            IN  <<v[1] + low \div Limb, low % Limb>>
    IN  Round(Spacing(v))

\* format_number: str(int(flt)) if flt.is_integer() else f"{flt:.15g}"
format_number(num) ==
    IF num.k = "big"
    THEN LET LimbStr(v) ==
                 NatStr(v[1]) \o Zeros(8 - Len(NatStr(v[2]))) \o NatStr(v[2])
         IN  (IF num.m < 0 THEN <<"-">> ELSE << >>)
                 \o LimbStr(FloatOfInt(<<Abs(num.m), Abs(num.x)>>))
    ELSE IF num.k = "nan" THEN <<"n", "a", "n">>
    ELSE IF num.k = "inf" THEN <<"i", "n", "f">>
    ELSE IF num.k = "-inf" THEN <<"-", "i", "n", "f">>
    ELSE IF IsInteger(num) THEN IntStr(Normal(num).m * Pow10(Normal(num).x))
    ELSE General15(num)

\* format_interval of intervals.py
format_interval(interval) ==
    LET left_bracket  == IF interval.left_open THEN <<"(">> ELSE <<"[">>
        right_bracket == IF interval.right_open THEN <<")">> ELSE <<"]">>
    IN  Return(Str(left_bracket \o format_number(interval.start)
                   \o <<" ", ".", ".", " ">>
                   \o format_number(interval.end) \o right_bracket))

(***************************************************************************)
(* common/intervals.py: the standard form                                  *)
(***************************************************************************)
\* num_sct_rgx_str = -?(?:\d+(?:\.\d+)?|[1-9]\.\d+e[+-]\d+)
num_sct_rgx_str(s) ==
    LET Body(u, m, x) ==
            \/ /\ ~HasExp(u, {"e"})
               /\ IsDigits1(IntPart(m))
               /\ ~HasDot(m) \/ IsDigits1(FracPart(m))
            \/ /\ HasExp(u, {"e"})
               /\ Len(IntPart(m)) = 1 /\ IsNonZeroLed(IntPart(m))
               /\ HasDot(m) /\ IsDigits1(FracPart(m))
               /\ x # << >> /\ Head(x) \in Signs /\ IsDigits1(Tail(x))
        Magnitude(u) == Body(u, Mantissa(u, {"e"}), Exponent(u, {"e"}))
    IN  Magnitude(IF s # << >> /\ Head(s) = "-" THEN Tail(s) ELSE s)

\* std_interval_rgx.fullmatch: ^([\[(])(num_sct)\ \.\.\ (num_sct)([\])])$
\* No bound holds a space, so the separator stands at the first space.
std_interval_rgx(s) ==
    LET Groups(n, k) ==
            IF /\ n >= 2 /\ s[1] \in LeftBrackets /\ s[n] \in RightBrackets
               /\ k # 0 /\ k + 3 <= n
               /\ s[k + 1] = "." /\ s[k + 2] = "." /\ s[k + 3] = " "
               /\ num_sct_rgx_str(Sub(s, 2, k - 1))
               /\ num_sct_rgx_str(Sub(s, k + 4, n - 1))
            THEN [kind |-> "match",
                  groups |-> <<Str(<<s[1]>>), Str(Sub(s, 2, k - 1)),
                               Str(Sub(s, k + 4, n - 1)), Str(<<s[n]>>)>>]
            ELSE NoMatch
    IN  Groups(Len(s), FirstIn(s, {" "}))

\* check_std_interval_str_match
check_std_interval_str_match(interval) ==
    LET InOrder(match, gt) ==
            IF Raised(gt) THEN gt
            ELSE IF gt.v THEN Raise("ValueError")
            ELSE Return(match)
        Matched(match) ==
            IF match = NoMatch THEN Raise("ValueError")
            ELSE InOrder(match, ToNumberGt(match.groups[2], match.groups[3]))
    IN  Matched(std_interval_rgx(interval))

\* is_std_interval_str
is_std_interval_str(interval) ==
    LET Matched(match) ==
            IF match = NoMatch THEN Return(FALSE)
            ELSE ToNumberLe(match.groups[2], match.groups[3])
    IN  Matched(std_interval_rgx(interval))

\* What an f-string writes for a str or for None
FStr(v) == IF v = None THEN <<"N", "o", "n", "e">> ELSE v.s

\* to_std_interval_str: groups[i] of the source is groups[i + 1] here.
to_std_interval_str(interval) ==
    LET Checked(std_interval, sanity) ==
            IF Raised(sanity) THEN sanity ELSE Return(Str(std_interval))
        Sanity(std_interval) ==
            Checked(std_interval, check_std_interval_str_match(std_interval))
        Format(left_bracket, min_val, max_val, right_bracket) ==
            IF Raised(min_val) THEN min_val
            ELSE IF Raised(max_val) THEN max_val
            ELSE Sanity(FStr(left_bracket) \o format_number(min_val.v)
                        \o <<" ", ".", ".", " ">>
                        \o format_number(max_val.v) \o FStr(right_bracket))
        Components(groups) ==
            IF groups[1] # None
            THEN Format(groups[1], to_number(groups[2]), to_number(groups[3]), groups[4])
            ELSE Format(Str(<<"[">>), to_number(groups[5]), to_number(groups[6]),
                        Str(<<"]">>))
        Standard(match, std) ==
            IF Raised(std) THEN std
            ELSE IF std.v THEN Return(Str(interval))
            ELSE Components(match.v.groups)
        Matched(match) ==
            IF Raised(match) THEN match
            ELSE Standard(match, is_std_interval_str(interval))
    IN  Matched(check_interval_str_match(interval))

(***************************************************************************)
(* common/types/strings: the number pattern of d_ints.py                   *)
(***************************************************************************)
INF == Num("float", "inf", 0, 0)

NEG_INF == Num("float", "-inf", 0, 0)

\* A str never equals a float: `start == NEG_INF` on a matched group.
PyEq(a, b) ==
    IF a.py = "str" /\ b.py = "str" THEN a.s = b.s
    ELSE IF IsNum(a) /\ IsNum(b) THEN NumEq(a, b)
    ELSE FALSE

\* `inf(?:inity)?|nan`
SpecialWords ==
    {<<"i", "n", "f">>, <<"i", "n", "f", "i", "n", "i", "t", "y">>, <<"n", "a", "n">>}

\* `0(?:x[\da-f]+|b[01]+|o[0-7]+)`
IsNonDecimal(u) ==
    /\ Len(u) >= 3 /\ u[1] = "0"
    /\ \/ u[2] = "x" /\ AllIn(Sub(u, 3, Len(u)), HexDigits)
       \/ u[2] = "b" /\ AllIn(Sub(u, 3, Len(u)), BinDigits)
       \/ u[2] = "o" /\ AllIn(Sub(u, 3, Len(u)), OctDigits)

\* `(?:\d+\.?\d*|\.\d+)(?:e[+-]?\d+)?`
IsDecimal(u) ==
    LET m == Mantissa(u, {"e"})
    IN  /\ \/ MantOpt(m)
           \/ HasDot(m) /\ IntPart(m) = << >> /\ IsDigits1(FracPart(m))
        /\ ~HasExp(u, {"e"}) \/ IsExpDigits(Exponent(u, {"e"}))

\* NUM_RXS = [+-]?(?:(?:\d+\.?\d*|\.\d+)(?:e[+-]?\d+)?|0(?:x[\da-f]+|b[01]+|o[0-7]+)
\*           |inf(?:inity)?|nan), as interval_rgx compiles it (no IGNORECASE)
NUM_RXS(s) ==
    \/ IsDecimal(Unsigned(s))
    \/ IsNonDecimal(Unsigned(s))
    \/ Unsigned(s) \in SpecialWords

\* flags=IGNORECASE: the pattern is matched on the lower-cased text.
Lower(c) ==
    CASE c = "A" -> "a" [] c = "B" -> "b" [] c = "C" -> "c" [] c = "D" -> "d"
      [] c = "E" -> "e" [] c = "F" -> "f" [] c = "I" -> "i" [] c = "N" -> "n"
      [] c = "O" -> "o" [] c = "T" -> "t" [] c = "X" -> "x" [] c = "Y" -> "y"
      [] OTHER -> c

LowerStr(s) == [i \in 1..Len(s) |-> Lower(s[i])]

\* `^\s*` ... `\s*$`
Strip(s) == RStrip(LStrip(s))

\* INT_DEC_RGX = ^\s*[+-]?\d+\s*$
INT_DEC_RGX(s) == IsDigits1(Unsigned(Strip(s)))

\* The pattern compiled without flags=IGNORECASE
INT_NON_DEC_RGX_cased(s) == IsNonDecimal(Unsigned(Strip(s)))

\* INT_NON_DEC_RGX = ^\s*[+-]?(?:0b[01]+|0x[\da-f]+|0o[0-7]+)\s*$, IGNORECASE
INT_NON_DEC_RGX(s) == IsNonDecimal(Unsigned(LowerStr(Strip(s))))

\* INT_RGX = ^\s*[+-]?(?:\d+|0b[01]+|0x[\da-f]+|0o[0-7]+)\s*$, IGNORECASE
INT_RGX(s) ==
    LET Magnitude(u) == IsDigits1(u) \/ IsNonDecimal(u)
    IN  Magnitude(Unsigned(LowerStr(Strip(s))))

\* The pattern with `\d+` in place of `\d+(?=e)`
RealDecimal_no_lookahead(u) ==
    LET Body(m) ==
            /\ \/ HasDot(m) /\ IsDigits1(IntPart(m)) /\ IsDigits0(FracPart(m))
               \/ HasDot(m) /\ IntPart(m) = << >> /\ IsDigits1(FracPart(m))
               \/ ~HasDot(m) /\ IsDigits1(m)
            /\ ~HasExp(u, {"e"}) \/ IsExpDigits(Exponent(u, {"e"}))
    IN  Body(Mantissa(u, {"e"}))

\* REAL_MAG_SCINOT_OPT_DGT_RXS = (?:\d+\.\d*|\.\d+|\d+(?=e))(?:e[+-]?\d+)?
RealDecimal(u) ==
    LET Body(m) ==
            /\ \/ HasDot(m) /\ IsDigits1(IntPart(m)) /\ IsDigits0(FracPart(m))
               \/ HasDot(m) /\ IntPart(m) = << >> /\ IsDigits1(FracPart(m))
               \/ ~HasDot(m) /\ IsDigits1(m) /\ HasExp(u, {"e"})
            /\ ~HasExp(u, {"e"}) \/ IsExpDigits(Exponent(u, {"e"}))
    IN  Body(Mantissa(u, {"e"}))

\* REAL_RGX = ^\s*([+-]?(?:(?:\d+\.\d*|\.\d+|\d+(?=e))(?:e[+-]?\d+)?
\*            |inf(?:inity)?|nan))\s*$, IGNORECASE
REAL_RGX(s) ==
    LET Magnitude(u) == RealDecimal(u) \/ u \in SpecialWords
    IN  Magnitude(Unsigned(LowerStr(Strip(s))))

\* NUM_RGX = ^\s*(NUM_RXS)\s*$, IGNORECASE
NUM_RGX(s) == NUM_RXS(LowerStr(Strip(s)))

\* REAL_BSC_RGX = ^\s*([+-]?(?:\d+\.\d*|\.\d+))\s*$
REAL_BSC_RGX(s) ==
    LET Body(u) ==
            /\ HasDot(u)
            /\ \/ IsDigits1(IntPart(u)) /\ IsDigits0(FracPart(u))
               \/ IntPart(u) = << >> /\ IsDigits1(FracPart(u))
    IN  Body(Unsigned(Strip(s)))

\* is_real_basic of d_ints.py on a str
d_is_real_basic(num) == Return(REAL_BSC_RGX(num.s))

\* is_real, is_int, is_int_dec, is_number of d_ints.py on a str
d_is_real(num) == Return(REAL_RGX(num.s))

d_is_int(num) == Return(INT_RGX(num.s))

d_is_int_dec(num) == Return(INT_DEC_RGX(num.s))

d_is_number(num) == Return(NUM_RGX(num.s))

\* float(num) of a string REAL_RGX matched
FloatOf(s) ==
    LET Value(t) ==
            IF Unsigned(t) = <<"n", "a", "n">> THEN Num("float", "nan", 0, 0)
            ELSE IF Unsigned(t) \in SpecialWords
            THEN (IF SignOf(t) < 0 THEN NEG_INF ELSE INF)
            ELSE DecimalValue("float", t, {"e"})
    IN  Value(LowerStr(Strip(s)))

\* to_number of d_ints.py.  The conditional expression of the integer branch
\* has no else operand: `int(num) if is_int_dec(num) else`.
d_to_number(num) ==
    IF REAL_RGX(num.s) THEN Return(FloatOf(num.s))
    ELSE IF INT_RGX(num.s)
    THEN (IF INT_DEC_RGX(num.s)
          THEN Return(DecimalValue("int", Strip(num.s), {"e"}))
          ELSE Raise("SyntaxError"))
    ELSE Raise("ValueError")

(***************************************************************************)
(* common/types/strings/d_intervals.py                                     *)
(***************************************************************************)
\* `[\w\t .+-]+\.\.[\w\t .+-]+` over the whole of seg
NumberLikePair(seg) ==
    /\ AllIn(seg, BktsClass)
    /\ \E k \in 2..(Len(seg) - 2) : DotDotAt(seg, k)

\* _invl_bkts: lookahead, both brackets or none
\* (?=[\[(][\w\t .+-]+\.\.[\w\t .+-]+[\])]|[\w\t .+-]+\.\.[\w\t .+-]+$)
invl_bkts(r) ==
    \/ /\ r # << >> /\ Head(r) \in LeftBrackets
       /\ \E j \in 2..Len(r) : r[j] \in RightBrackets /\ NumberLikePair(Sub(r, 2, j - 1))
    \/ NumberLikePair(r)

\* The lookahead written with {4,}: a run of exactly three dots passes.
invl_2dts_only_four(r) ==
    ~\E i \in 2..(Len(r) - 3) :
        r[i] = "." /\ r[i + 1] = "." /\ r[i + 2] = "." /\ r[i + 3] = "."

\* _invl_2dts_only: negative lookahead (?!.+\.{3,})
invl_2dts_only(r) ==
    ~\E i \in 2..(Len(r) - 2) : r[i] = "." /\ r[i + 1] = "." /\ r[i + 2] = "."

\* _invl_core = (?<start>num)[\t ]*\.\.[\t ]*(?<end>num)
invl_core(c, k) ==
    DotDotAt(c, k) /\ NUM_RXS(RStrip(Before(c, k))) /\ NUM_RXS(LStrip(After(c, k)))

\* interval_rgx.fullmatch of d_intervals.py: the named groups, or no match.
d_interval_rgx(s) ==
    LET Groups(c, k) ==
            IF invl_bkts(LStrip(s)) /\ invl_2dts_only(AfterLb(s)) /\ k # 0
            THEN [kind |-> "match",
                  start |-> Str(RStrip(Before(c, k))), end |-> Str(LStrip(After(c, k))),
                  lb |-> LbOf(s), rb |-> RbOf(AfterLb(s))]
            ELSE NoMatch
        Split(c) == Groups(c, LastSplit(c, invl_core))
    IN  Split(Core(s))

\* check_valid_interval_values (the one definition of that name, in
\* intervals.py): `min_val > max_val` on the values it is handed.
PyGt(a, b) ==
    IF a.py = "str" /\ b.py = "str" THEN Return(StrGt(a.s, b.s))
    ELSE IF IsNum(a) /\ IsNum(b) THEN Return(NumGt(a, b))
    ELSE Raise("TypeError")

check_valid_interval_values(min_val, max_val) ==
    LET InOrder(gt) ==
            IF Raised(gt) THEN gt
            ELSE IF gt.v THEN Raise("ValueError")
            ELSE Return(<<min_val, max_val>>)
    IN  InOrder(PyGt(min_val, max_val))

\* extract_interval_elements
extract_interval_elements(interval) ==
    LET Checked(groups, left_bracket, right_bracket, valid) ==
            IF Raised(valid) THEN valid
            ELSE Return([start |-> groups.start, end |-> groups.end,
                         lb |-> left_bracket, rb |-> right_bracket])
        Matched(groups) ==
            IF groups = NoMatch THEN Raise("ValueError")
            ELSE Checked(groups,
                         IF groups.lb # None THEN groups.lb
                         ELSE IF PyEq(groups.start, NEG_INF) THEN Str(<<"(">>)
                         ELSE Str(<<"[">>),
                         IF groups.rb # None THEN groups.rb
                         ELSE IF PyEq(groups.end, INF) THEN Str(<<")">>)
                         ELSE Str(<<"]">>),
                         check_valid_interval_values(groups.start, groups.end))
    IN  Matched(d_interval_rgx(interval))

\* to_interval of d_intervals.py
d_to_interval(interval) ==
    LET Build(interval_elements) ==
            IF Raised(interval_elements) THEN interval_elements
            ELSE Return(Interval(interval_elements.v.start, interval_elements.v.end,
                                 interval_elements.v.lb = Str(<<"(">>),
                                 interval_elements.v.rb = Str(<<")">>)))
    IN  Build(extract_interval_elements(interval))

\* _match_to_interval_dict (and _extract_interval_elements, which applies it
\* to interval_rgx.fullmatch): None for no match
match_to_interval_dict(match) ==
    LET Dict(left, right) ==
            [py |-> "dict", start |-> match.start, end |-> match.end,
             left |-> left, right |-> right,
             left_open |-> (left = Str(<<"(">>)), right_open |-> (right = Str(<<")">>))]
    IN  IF match = NoMatch THEN None
        ELSE Dict(IF match.lb # None THEN match.lb
                  ELSE IF PyEq(match.start, NEG_INF) THEN Str(<<"(">>) ELSE Str(<<"[">>),
                  IF match.rb # None THEN match.rb
                  ELSE IF PyEq(match.end, INF) THEN Str(<<")">>) ELSE Str(<<"]">>))

\* is_interval_valid on a str: the dictionary of _extract_interval_elements
\* has the keys left and right, and the function reads interval['lb'].
is_interval_valid(interval) ==
    LET Valid(d, gt) ==
            Return(/\ ~Raised(gt) /\ ~gt.v
                   /\ PyEq(d.start, NEG_INF) => d.lb = Str(<<"(">>)
                   /\ PyEq(d.end, INF) => d.rb = Str(<<")">>))
        Extracted(d) ==
            IF d = None THEN Return(FALSE)
            ELSE IF "lb" \notin DOMAIN d THEN Raise("KeyError")
            ELSE Valid(d, PyGt(d.start, d.end))
    IN  Extracted(match_to_interval_dict(d_interval_rgx(interval)))

\* check_interval_valid on a str
check_interval_valid(interval) ==
    LET Bounds(d, gt) ==
            IF Raised(gt) THEN gt
            ELSE IF gt.v THEN Raise("ValueError")
            ELSE IF PyEq(d.start, NEG_INF) /\ ~d.left_open THEN Raise("ValueError")
            ELSE IF PyEq(d.end, INF) /\ ~d.right_open THEN Raise("ValueError")
            ELSE Return(None)
        Extracted(d) ==
            IF d = None THEN Raise("ValueError") ELSE Bounds(d, PyGt(d.start, d.end))
        Checked(valid) ==
            IF Raised(valid) THEN valid
            ELSE IF valid.v THEN Return(Str(interval))
            ELSE Extracted(match_to_interval_dict(d_interval_rgx(interval)))
    IN  Checked(is_interval_valid(interval))

\* format_interval of d_intervals.py on an Interval: the brackets are bound
\* to left and right, and the returned f-string reads left_bracket and
\* right_bracket, names that are bound nowhere.
d_format_interval(interval) ==
    LET left  == IF interval.left_open THEN <<"[">> ELSE <<"(">>
        right == IF interval.right_open THEN <<"]">> ELSE <<")">>
        bound == {"interval", "start", "end", "left", "right"}
    IN  IF "left_bracket" \notin bound \/ "right_bracket" \notin bound
        THEN Raise("NameError")
        ELSE Return(Str(left \o interval.start.s \o <<" ", ".", ".", " ">>
                        \o interval.end.s \o right))

\* __interval_dict_keys and _is_interval_dict: the six keys, numeric bounds
IntervalDictKeys == {"start", "end", "left", "right", "left_open", "right_open"}

is_interval_dict(interval) ==
    /\ DOMAIN interval \ {"py"} = IntervalDictKeys
    /\ IsNum(interval.start) /\ IsNum(interval.end)

\* is_interval_str of d_intervals.py: the bounds go through to_number and
\* is_interval_valid is handed a dictionary of the four keys lb, rb, start
\* and end, which it refuses unless _is_interval_dict holds (and from which
\* it would read interval['lb'] otherwise).
d_is_interval_str(interval) ==
    LET Valid(d) ==
            IF ~is_interval_dict(d) THEN Raise("ValueError") ELSE Raise("KeyError")
        Numbers(match, start, end) ==
            IF Raised(start) THEN start
            ELSE IF Raised(end) THEN end
            ELSE Valid([py |-> "dict", lb |-> match.lb, rb |-> match.rb,
                        start |-> start.v, end |-> end.v])
        Matched(match) ==
            IF match = NoMatch THEN Return(FALSE)
            ELSE Numbers(match, d_to_number(match.start), d_to_number(match.end))
    IN  Matched(d_interval_rgx(interval))

(***************************************************************************)
(* Inputs: interval strings assembled from bounded pieces                  *)
(***************************************************************************)
\* Largest run of whitespace on either side of the separator.
MaxWs == 1

Literals ==
    { <<"1">>, <<"2">>, <<"9">>, <<"1", "0">>,
      <<"1", ".">>, <<"2", ".">>, <<".", "2">>, <<".", "5">>,
      <<"1", ".", "e", "1">>, <<"2", ".", "5", "e", "1">>,
      <<"-", "1", ".", "5">>, <<"3", ".", "5">>,
      <<"-", "i", "n", "f">>, <<"i", "n", "f">>, <<"n", "a", "n">>,
      <<"0", "x", "0", "0", "0", "1">>, <<"0", "x", "0", "0", "0", "2">> }

\* Lengths of the run of dots that separates the bounds.
DotRuns == {2, 3}

RECURSIVE Repeat(_, _)
Repeat(c, n) == IF n <= 0 THEN << >> ELSE <<c>> \o Repeat(c, n - 1)

Parts ==
    [lb : {<< >>, <<"[">>, <<"(">>}, rb : {<< >>, <<"]">>, <<")">>},
     lo : Literals, hi : Literals,
     wl : 0..MaxWs, wr : 0..MaxWs, dots : DotRuns, pad : 0..1]

\* pad spaces stand before and after each bracket position.
Assemble(p) ==
    Repeat(" ", p.pad) \o p.lb \o Repeat(" ", p.pad) \o p.lo
        \o Repeat(" ", p.wl) \o Repeat(".", p.dots) \o Repeat(" ", p.wr)
        \o p.hi \o Repeat(" ", p.pad) \o p.rb \o Repeat(" ", p.pad)

\* Value of a digit of a base up to sixteen, and of a run of such digits.
BaseDigitVal(c) == IF c \in Digits THEN DigitVal(c) ELSE Ord(c) - 87

RECURSIVE BaseVal(_, _)
BaseVal(s, base) ==
    IF s = << >> THEN 0
    ELSE base * BaseVal(Sub(s, 1, Len(s) - 1), base) + BaseDigitVal(s[Len(s)])

\* The integer a 0x / 0b / 0o literal denotes.
NonDecimalValue(lit) ==
    LET u == Unsigned(lit)
    IN  Num("int", "fin",
            SignOf(lit) * BaseVal(Sub(u, 3, Len(u)),
                                  IF u[2] = "x" THEN 16 ELSE IF u[2] = "b" THEN 2 ELSE 8),
            0)

\* The number a literal denotes (the value of the bound as written).
BoundValue(lit) ==
    IF Unsigned(lit) = <<"n", "a", "n">> THEN Num("float", "nan", 0, 0)
    ELSE IF IsNonDecimal(Unsigned(lit)) THEN NonDecimalValue(lit)
    ELSE IF Unsigned(lit) \in SpecialWords
    THEN (IF SignOf(lit) < 0 THEN NEG_INF ELSE INF)
    ELSE DecimalValue(IF int_rgx(lit) THEN "int" ELSE "float", lit, ExpMarks)

Init ==
    /\ parts \in Parts
    /\ text = Assemble(parts)
    /\ op = "input"
    /\ arg = Str(text)
    /\ res = None

Call(name, result) ==
    /\ op = "input"
    /\ op' = name
    /\ res' = result
    /\ UNCHANGED <<parts, text, arg>>

IntervalRgx == Call("interval_rgx", interval_rgx(text))

CheckIntervalStrMatch == Call("check_interval_str_match", check_interval_str_match(text))

ToInterval == Call("to_interval", to_interval(text))

IsIntervalStr == Call("is_interval_str", is_interval_str(text))

DIntervalRgx == Call("d_interval_rgx", d_interval_rgx(text))

ExtractIntervalElements == Call("extract_interval_elements", extract_interval_elements(text))

DToInterval == Call("d_to_interval", d_to_interval(text))

IsIntervalValid == Call("is_interval_valid", is_interval_valid(text))

CheckIntervalValid == Call("check_interval_valid", check_interval_valid(text))

ToStdIntervalStr == Call("to_std_interval_str", to_std_interval_str(text))

\* format_interval of intervals.py on an Interval of the two bounds' values
FormatInterval ==
    \E left_open, right_open \in BOOLEAN :
        /\ op = "input"
        /\ NumLe(BoundValue(parts.lo), BoundValue(parts.hi))
        /\ BoundValue(parts.lo).k = "-inf" => left_open
        /\ BoundValue(parts.hi).k = "inf" => right_open
        /\ arg' = Interval(BoundValue(parts.lo), BoundValue(parts.hi), left_open, right_open)
        /\ op' = "format_interval"
        /\ res' = format_interval(arg')
        /\ UNCHANGED <<parts, text>>

DIsIntervalStr == Call("d_is_interval_str", d_is_interval_str(text))

\* format_interval of d_intervals.py on the Interval its to_interval returned
DFormatInterval ==
    /\ op = "d_to_interval"
    /\ res.kind = "ok"
    /\ arg' = res.v
    /\ op' = "d_format_interval"
    /\ res' = d_format_interval(res.v)
    /\ UNCHANGED <<parts, text>>

\* is_int_interval(to_interval(s)) with to_interval of either module; an
\* exception of to_interval propagates.
IsIntInterval ==
    /\ op = "input"
    /\ \E parsed \in {to_interval(text), d_to_interval(text)} :
           Call("is_int_interval",
                IF Raised(parsed) THEN parsed ELSE is_int_interval(parsed.v))

\* is_float_interval(to_interval(s)), likewise
IsFloatInterval ==
    /\ op = "input"
    /\ \E parsed \in {to_interval(text), d_to_interval(text)} :
           Call("is_float_interval",
                IF Raised(parsed) THEN parsed ELSE is_float_interval(parsed.v))

Next ==
    \/ IntervalRgx
    \/ CheckIntervalStrMatch
    \/ ToInterval
    \/ IsIntervalStr
    \/ ToStdIntervalStr
    \/ FormatInterval
    \/ DIntervalRgx
    \/ ExtractIntervalElements
    \/ DToInterval
    \/ IsIntervalValid
    \/ CheckIntervalValid
    \/ DIsIntervalStr
    \/ DFormatInterval
    \/ IsIntInterval
    \/ IsFloatInterval

Spec == Init /\ [][Next]_vars

(***************************************************************************)
(* Inputs: numeric strings, and the calls of the numeric functions         *)
(***************************************************************************)
NumBodies ==
    { <<"0">>,
      <<"4", "2">>,
      <<"0", "0", "1", "2">>,
      <<"1", ".", "5">>,
      <<"1", ".">>,
      <<".", "7">>,
      <<"1", "e", "5">>,
      <<"1", "e", "-", "0">>,
      <<"1", ".", "0", "e", "-", "5">>,
      <<"1", ".", "0", "E", "+", "5">>,
      <<"5", "6", "E", "6", "7">>,
      <<"5", "6">>,
      <<"9", "0", "0", "7", "1", "9", "9", "2", "5", "4", "7", "4", "0", "9", "9", "3">>,
      <<"0", ".", "0", "0", "0", "0", "1">>,
      <<"2", "e", "4">>,
      <<"0", "e", "0">>,
      <<"1", "e", "-", "0", "5">>,
      <<".">>,
      <<".", "0">>,
      <<"0", ".", "0">>,
      <<"2", ".", "0">>,
      <<"1", ".", "2", ".", "3">>,
      <<"0", "x", "1", "a">>,
      <<"0", "X", "1", "A">>,
      <<"0", "x">>,
      <<"0", "x", "1", "e", "5">>,
      <<"0", "x", "1", ".", "5">>,
      <<"0", "b", "1", "0", "1">>,
      <<"0", "B", "1", "0", "1">>,
      <<"0", "b", "1", "0", "2">>,
      <<"0", "b", "1", "e", "1">>,
      <<"0", "o", "7", "5", "5">>,
      <<"0", "O", "7", "5", "5">>,
      <<"0", "o", "8">>,
      <<"i", "n", "f">>,
      <<"I", "N", "F">>,
      <<"i", "n", "f", "i", "n", "i", "t", "y">>,
      <<"n", "a", "n">>,
      <<"N", "a", "N">>,
      << >>,
      <<"a", "b", "c">>,
      <<"4", " ", "2">>,
      <<"0", "x", " ", "1", "a">>,
      <<"1", ".", " ", "5">> }

NumSigns == {<< >>, <<"+">>, <<"-">>}

NumParts == [sign : NumSigns, body : NumBodies, wl : 0..MaxWs, wr : 0..MaxWs]

NumAssemble(p) == Repeat(" ", p.wl) \o p.sign \o p.body \o Repeat(" ", p.wr)

NumInit ==
    /\ parts \in NumParts
    /\ text = NumAssemble(parts)
    /\ op = "input"
    /\ arg = Str(text)
    /\ res = None

IsFloat == Call("is_float", is_float(arg))

IsInt == Call("is_int", is_int(arg))

IsNumber == Call("is_number", is_number(arg))

ToNumber == Call("to_number", to_number(arg))

DIsReal == Call("d_is_real", d_is_real(arg))

DIsInt == Call("d_is_int", d_is_int(arg))

DIsIntDec == Call("d_is_int_dec", d_is_int_dec(arg))

DIsNumber == Call("d_is_number", d_is_number(arg))

DToNumber == Call("d_to_number", d_to_number(arg))

\* INT_NON_DEC_RGX.match(text)
IntNonDecRgx ==
    Call("INT_NON_DEC_RGX",
         IF INT_NON_DEC_RGX(text) THEN [kind |-> "match"] ELSE NoMatch)

FltBscRlxRgx ==
    Call("flt_bsc_rlx_rgx",
         IF flt_bsc_rlx_rgx(text) THEN [kind |-> "match"] ELSE NoMatch)

DIsRealBasic == Call("d_is_real_basic", d_is_real_basic(arg))

\* Floats are formatted up to this many digits before the decimal point.
MaxFloatDigits == 8

\* format_number(to_number(s)): the formatter applied to a value that
\* to_number of either module returns for the input string
FormatNumber ==
    LET ParserValues ==
            {r.v : r \in {p \in {to_number(arg), d_to_number(arg)} : p.kind = "ok"}}
        Formattable(v) ==
            (v.py = "float" /\ v.k = "fin")
                => Len(NatStr(Abs(Normal(v).m))) + Normal(v).x <= MaxFloatDigits
    IN  /\ op = "input"
        /\ \E v \in ParserValues :
                /\ Formattable(v)
                /\ arg' = v
                /\ res' = Return(Str(format_number(v)))
        /\ op' = "format_number"
        /\ UNCHANGED <<parts, text>>

NumNext ==
    \/ IsFloat
    \/ IsInt
    \/ IsNumber
    \/ ToNumber
    \/ DIsReal
    \/ DIsInt
    \/ DIsIntDec
    \/ DIsNumber
    \/ DToNumber
    \/ IntNonDecRgx
    \/ FltBscRlxRgx
    \/ DIsRealBasic
    \/ FormatNumber

NumSpec == NumInit /\ [][NumNext]_vars

(***************************************************************************)
(* common/types/enums/enum_regex.py: EnumRegex (specification EnumSpec)    *)
(*                                                                         *)
(* A subclass is declared as a sequence of members, each a tuple of        *)
(* patterns; parts holds the declaration and the table _ENUMS_TO_REGEXES   *)
(* that __init_subclass__ built, text the string looked up.                *)
(***************************************************************************)
\* rx.fullmatch(string), by the language each pattern denotes; a pattern
\* without metacharacters matches itself only.
fullmatch(rx, string) ==
    CASE rx = "[a-z]+" -> string \in {"apple", "banana", "orange"}
      [] rx = "(?:apple)?" -> string \in {"", "apple"}
      [] OTHER -> string = rx

\* EnumRegex.__init_subclass__: Enum makes a member whose value (its first
\* pattern) repeats that of an earlier member an alias of it, and `for member
\* in cls` skips aliases; a pattern met twice raises ValueError; otherwise
\* the table lists the members and their patterns in definition order.
init_subclass(members) ==
    LET Own == {i \in 1..Len(members) :
                    \A j \in 1..(i - 1) : members[j][1] # members[i][1]}
        Used == UNION {{<<i, k>> : k \in 1..Len(members[i])} : i \in Own}
        Duplicate == \E a, b \in Used : a # b /\ members[a[1]][a[2]] = members[b[1]][b[2]]
        Nth(n) == CHOOSE i \in Own : Cardinality({j \in Own : j < i}) = n - 1
    IN  IF Duplicate THEN Raise("ValueError")
        ELSE Return([n \in 1..Cardinality(Own) |->
                        [member |-> [py |-> "member", index |-> Nth(n)],
                         regexes |-> members[Nth(n)]]])

\* Some pattern of the table entry fully matches the string.
EntryMatches(entry, string) ==
    \E k \in 1..Len(entry.regexes) : fullmatch(entry.regexes[k], string)

\* EnumRegex.is_valid_str(string, self): self is None or a member of cls
is_valid_str(cls, string, self) ==
    IF self = None
    THEN Return(\E n \in 1..Len(cls.table) : EntryMatches(cls.table[n], string))
    ELSE Return(\E n \in 1..Len(cls.table) :
                    /\ cls.table[n].member = self
                    /\ EntryMatches(cls.table[n], string))

\* EnumRegex.maybe_from_str: the first member of the table with a pattern
\* that fully matches, None if there is none.
maybe_from_str(cls, string) ==
    LET Hits == {n \in 1..Len(cls.table) : EntryMatches(cls.table[n], string)}
        First == CHOOSE n \in Hits : \A h \in Hits : n <= h
    IN  IF Hits = {} THEN Return(None) ELSE Return(cls.table[First].member)

\* from_str without the check of the result for None
from_str_unchecked(cls, string) == maybe_from_str(cls, string)

\* EnumRegex.from_str
from_str(cls, string) ==
    LET Checked(result) ==
            IF result.v = None THEN Raise("ValueError") ELSE result
    IN  Checked(maybe_from_str(cls, string))

MaxMembers == 2

MaxPatterns == 2

EnumStrings == {"apple", "APPLE", "banana", "BANANA", "orange", ""}

\* The declarations of at most MaxMembers members of at most MaxPatterns
\* patterns each.
EnumClasses ==
    LET Patterns == {"apple", "APPLE", "banana", "[a-z]+", "(?:apple)?"}
        Tuples == UNION {[1..k -> Patterns] : k \in 1..MaxPatterns}
    IN  UNION {[1..n -> Tuples] : n \in 1..MaxMembers}

\* A subclass whose creation did not raise, and a string to look up.
EnumInit ==
    /\ parts \in {[members |-> d, table |-> init_subclass(d).v] :
                    d \in {c \in EnumClasses : init_subclass(c).kind = "ok"}}
    /\ text \in EnumStrings
    /\ op = "input"
    /\ arg = None
    /\ res = None

IsValidStr == Call("is_valid_str", is_valid_str(parts, text, None))

\* is_valid_str(string, self) for a member self of the class
IsValidStrOf ==
    /\ op = "input"
    /\ \E n \in 1..Len(parts.table) :
            /\ arg' = parts.table[n].member
            /\ res' = is_valid_str(parts, text, parts.table[n].member)
    /\ op' = "is_valid_str_of"
    /\ UNCHANGED <<parts, text>>

MaybeFromStr == Call("maybe_from_str", maybe_from_str(parts, text))

FromStr == Call("from_str", from_str(parts, text))

EnumNext ==
    \/ IsValidStr
    \/ IsValidStrOf
    \/ MaybeFromStr
    \/ FromStr

EnumSpec == EnumInit /\ [][EnumNext]_vars

(***************************************************************************)
(* Vocabulary of the properties                                            *)
(***************************************************************************)
PatternOps == {"interval_rgx", "d_interval_rgx"}

\* The functions that return the parse or raise
ParserOps ==
    {"check_interval_str_match", "to_interval", "extract_interval_elements", "d_to_interval"}

\* The functions that return an Interval
IntervalOps == {"to_interval", "d_to_interval"}

PredicateOps == {"is_interval_str", "is_interval_valid"}

TextOps == PatternOps \cup ParserOps \cup PredicateOps \cup {"check_interval_valid"}

\* The result r says the string was taken as a valid interval.
AcceptedBy(name, r) ==
    IF name \in PatternOps THEN r.kind = "match"
    ELSE IF name \in PredicateOps THEN r.kind = "ok" /\ r.v = TRUE
    ELSE r.kind = "ok"

Accepted == AcceptedBy(op, res)

\* What each operation returns on a string t
Apply(name, t) ==
    CASE name = "interval_rgx" -> interval_rgx(t)
      [] name = "d_interval_rgx" -> d_interval_rgx(t)
      [] name = "check_interval_str_match" -> check_interval_str_match(t)
      [] name = "to_interval" -> to_interval(t)
      [] name = "extract_interval_elements" -> extract_interval_elements(t)
      [] name = "d_to_interval" -> d_to_interval(t)
      [] name = "is_interval_str" -> is_interval_str(t)
      [] name = "is_interval_valid" -> is_interval_valid(t)
      [] name = "check_interval_valid" -> check_interval_valid(t)

\* The number a bound of a returned Interval stands for
ValueOf(b) == IF b.py = "str" THEN BoundValue(b.s) ELSE b

Lo == BoundValue(parts.lo)

Hi == BoundValue(parts.hi)

BoundsOrdered == NumLe(Lo, Hi)

NoNaN == Lo.k # "nan" /\ Hi.k # "nan"

Paired == (parts.lb = << >>) = (parts.rb = << >>)

EndsWithDot(lit) == lit[Len(lit)] = "."

StartsWithDot(lit) == Head(lit) = "."

Unspaced == parts.wl = 0 /\ parts.wr = 0

Spaced == parts.wl >= 1 /\ parts.wr >= 1

\* An infinite bound is written with a round bracket.
NoClosedInfinite ==
    /\ Lo.k # "fin" => parts.lb = <<"(">>
    /\ Hi.k # "fin" => parts.rb = <<")">>

\* The surface grammar: both brackets or none, a two-dot separator, and no
\* literal with a bare decimal point next to the separator unless the
\* separator has whitespace on both sides.
GrammarValid ==
    /\ Paired
    /\ parts.dots = 2
    /\ Spaced \/ (~EndsWithDot(parts.lo) /\ ~StartsWithDot(parts.hi))

HasTripleDot(t) ==
    \E i \in 1..(Len(t) - 2) : t[i] = "." /\ t[i + 1] = "." /\ t[i + 2] = "."

(***************************************************************************)
(* Properties                                                              *)
(***************************************************************************)
\* C1: a syntactically valid interval string with non-NaN bounds and no
\* closed infinite end is parsed if and only if its lower bound is
\* numerically <= its upper bound, and no returned interval has its lower
\* bound above its upper bound.
C1_AcceptedIffOrdered ==
    /\ (op \in ParserOps /\ GrammarValid /\ NoNaN /\ NoClosedInfinite)
          => (Accepted <=> BoundsOrdered)
    /\ (op \in IntervalOps /\ res.kind = "ok")
          => ~NumGt(ValueOf(res.v.start), ValueOf(res.v.end))

C4_BracketsAgree ==
    /\ (op \in IntervalOps /\ res.kind = "ok" /\ parts.lb # << >> /\ parts.rb # << >>)
          => /\ res.v.left_open = (parts.lb = <<"(">>)
             /\ res.v.right_open = (parts.rb = <<")">>)
    /\ op \in {"format_interval", "d_format_interval"}
          => /\ res.kind = "ok"
             /\ Head(res.v.s) = (IF arg.left_open THEN "(" ELSE "[")
             /\ res.v.s[Len(res.v.s)] = (IF arg.right_open THEN ")" ELSE "]")
    /\ (op = "d_format_interval" /\ parts.lb # << >> /\ parts.rb # << >>)
          => /\ res.kind = "ok"
             /\ <<Head(res.v.s)>> = parts.lb
             /\ <<res.v.s[Len(res.v.s)]>> = parts.rb

C6_UnspacedExclusions ==
    (op \in ParserOps /\ Unspaced /\ parts.dots = 2 /\ Paired /\ NoNaN /\ NoClosedInfinite)
        => (Accepted <=>
               (~EndsWithDot(parts.lo) /\ ~StartsWithDot(parts.hi) /\ BoundsOrdered))

\* C7: with whitespace on both sides of the two-dot separator every pair of
\* valid literals with lower <= upper is parsed, a lower literal ending in
\* '.' and an upper literal beginning with '.' included.
C7_SpacedAnyLiteral ==
    (op \in ParserOps /\ Spaced /\ parts.dots = 2 /\ Paired /\ NoNaN /\ NoClosedInfinite
        /\ BoundsOrdered) => Accepted

\* C8: a string without brackets, and the same string in square brackets,
\* parse to the interval closed at both ends with the two bounds written,
\* whatever the spacing.
C8_NoBracketsClosed ==
    (/\ op \in IntervalOps /\ GrammarValid /\ BoundsOrdered
     /\ Lo.k = "fin" /\ Hi.k = "fin"
     /\ parts.lb \in {<< >>, <<"[">>} /\ parts.rb \in {<< >>, <<"]">>})
        => /\ res.kind = "ok"
           /\ ~res.v.left_open /\ ~res.v.right_open
           /\ NumEq(ValueOf(res.v.start), Lo) /\ NumEq(ValueOf(res.v.end), Hi)

\* C9: a string with exactly one of its two brackets is rejected by both
\* patterns and by every function that takes the string.
C9_OneBracketRejected ==
    (op \in TextOps /\ ~Paired) => ~Accepted

\* The same pieces with no whitespace around the separator
UnspacedForm == Assemble([parts EXCEPT !.wl = 0, !.wr = 0])

\* C10: a string with whitespace on one side only of the two-dot separator
\* is accepted whenever its unspaced form is, with the same result.
C10_OneSidedWhitespace ==
    (/\ op \in PatternOps \cup ParserOps
     /\ (parts.wl = 0) # (parts.wr = 0)
     /\ parts.dots = 2
     /\ AcceptedBy(op, Apply(op, UnspacedForm)))
        => /\ Accepted
           /\ op \in IntervalOps => res = Apply(op, UnspacedForm)

HexBounds ==
    /\ parts.lo = <<"0", "x", "0", "0", "0", "1">>
    /\ parts.hi = <<"0", "x", "0", "0", "0", "2">>

\* C11: with both brackets (or none), a spaced two-dot separator and every
\* literal a number of the numeric grammar, an interval string is parsed
\* exactly when neither bound is NaN (ordered bounds, infinite ends open);
\* with the bounds 0x0001 and 0x0002 the parse is the interval from 1 to 2
\* with the inclusivity of its brackets.
C11_BoundsAreNumbers ==
    /\ (/\ op \in ParserOps /\ Paired /\ parts.dots = 2 /\ Spaced
        /\ NoClosedInfinite /\ NoNaN => BoundsOrdered)
          => (Accepted <=> NoNaN)
    /\ (op \in IntervalOps /\ Paired /\ parts.dots = 2 /\ Spaced /\ HexBounds)
          => /\ res.kind = "ok"
             /\ NumEq(ValueOf(res.v.start), Num("int", "fin", 1, 0))
             /\ NumEq(ValueOf(res.v.end), Num("int", "fin", 2, 0))
             /\ res.v.left_open = (parts.lb = <<"(">>)
             /\ res.v.right_open = (parts.rb = <<")">>)

\* A string of the grammar with ordered, non-NaN bounds and open infinite ends
ValidIntervalStr == GrammarValid /\ NoNaN /\ NoClosedInfinite /\ BoundsOrdered

BracketOf(b, default) == IF b = << >> THEN default ELSE b

\* The standard form of the interval the input denotes
StandardForm ==
    BracketOf(parts.lb, <<"[">>) \o format_number(Lo) \o <<" ", ".", ".", " ">>
        \o format_number(Hi) \o BracketOf(parts.rb, <<"]">>)

\* C12: to_std_interval_str succeeds on every valid interval string, its
\* result is the opening bracket, the canonical lower bound, ' .. ', the
\* canonical upper bound and the closing bracket, and that result matches
\* std_interval_rgx, satisfies is_std_interval_str and is accepted by the
\* interval pattern.
C12_StandardForm ==
    (op = "to_std_interval_str" /\ ValidIntervalStr)
        => /\ res.kind = "ok"
           /\ res.v.s = StandardForm
           /\ std_interval_rgx(res.v.s) # NoMatch
           /\ is_std_interval_str(res.v.s) = Return(TRUE)
           /\ interval_rgx(res.v.s) # NoMatch

\* C13: for every valid interval string, to_std_interval_str returns what
\* format_interval returns for the interval to_interval parses from it.
C13_StdIsFormatOfParse ==
    LET SameAsFormat(parsed) ==
            parsed.kind = "ok" /\ res = format_interval(parsed.v)
    IN  (op = "to_std_interval_str" /\ ValidIntervalStr)
            => res.kind = "ok" /\ SameAsFormat(to_interval(text))

\* C14: for every valid interval string the standard string t is returned,
\* t parses, formatting that parse gives t, and standardising t gives t.
C14_StdIdempotent ==
    LET FixedPoint(parsed) ==
            parsed.kind = "ok" /\ format_interval(parsed.v) = res
    IN  (op = "to_std_interval_str" /\ ValidIntervalStr)
            => /\ res.kind = "ok"
               /\ FixedPoint(to_interval(res.v.s))
               /\ to_std_interval_str(res.v.s) = res

\* C15: is_interval_str raises on no string, and returns True exactly when
\* to_interval of the same module returns an interval for that string.
C15_IsIntervalStrTotal ==
    /\ op = "is_interval_str"
          => res.kind = "ok" /\ (res.v <=> to_interval(text).kind = "ok")
    /\ op = "d_is_interval_str"
          => res.kind = "ok" /\ (res.v <=> d_to_interval(text).kind = "ok")

(***************************************************************************)
(* Properties of the numeric functions (specification NumSpec)             *)
(***************************************************************************)
NumClassifiers ==
    {"is_float", "is_int", "is_number", "d_is_real", "d_is_int", "d_is_int_dec",
     "d_is_number"}

NumConverters == {"to_number", "d_to_number"}

NumOps == NumClassifiers \cup NumConverters \cup {"INT_NON_DEC_RGX"}

\* The call said the string is a number of the kind it tests for.
NumAccepted ==
    IF op \in NumClassifiers THEN res.v
    ELSE IF op = "INT_NON_DEC_RGX" THEN res.kind = "match"
    ELSE res.kind = "ok"

\* What each numeric operation returns on a str value a
NumApply(name, a) ==
    CASE name = "is_float" -> is_float(a)
      [] name = "is_int" -> is_int(a)
      [] name = "is_number" -> is_number(a)
      [] name = "to_number" -> to_number(a)
      [] name = "d_is_real" -> d_is_real(a)
      [] name = "d_is_int" -> d_is_int(a)
      [] name = "d_is_int_dec" -> d_is_int_dec(a)
      [] name = "d_is_number" -> d_is_number(a)
      [] name = "d_to_number" -> d_to_number(a)
      [] name = "INT_NON_DEC_RGX" ->
            IF INT_NON_DEC_RGX(a.s) THEN [kind |-> "match"] ELSE NoMatch

\* C16: no string is both an integer and a float: after is_float (is_real)
\* answered True, is_int of the same module answers False for the same
\* string, and the other way round.
C16_IntFloatDisjoint ==
    /\ (op = "is_float" /\ res.v) => ~is_int(arg).v
    /\ (op = "is_int" /\ res.v) => ~is_float(arg).v
    /\ (op = "d_is_real" /\ res.v) => ~d_is_int(arg).v
    /\ (op = "d_is_int" /\ res.v) => ~d_is_real(arg).v

C16_Witness ==
    /\ op = "d_is_real" /\ res.v
    /\ parts.body = <<"1", "e", "5">>
    /\ d_is_int(Str(<<"1">>)).v

\* C17: to_number returns a number for exactly the strings for which
\* is_number of the same module is True, and raises ValueError for every
\* other string.
C17_ToNumberIffIsNumber ==
    /\ op = "to_number"
          => IF is_number(arg).v
             THEN res.kind = "ok" /\ IsNum(res.v)
             ELSE res.kind = "ValueError"
    /\ op = "d_to_number"
          => IF d_is_number(arg).v
             THEN res.kind = "ok" /\ IsNum(res.v)
             ELSE res.kind = "ValueError"

\* The literal of the input has white space between its characters.
InnerSpace == \E i \in 1..Len(parts.body) : parts.body[i] = " "

\* C18: white space around a numeric string changes nothing: every
\* operation answers for the padded string what it answers for the bare
\* literal; a literal with white space between its characters is rejected
\* by every operation.
C18_SurroundingWhitespace ==
    op \in NumOps
        => /\ res = NumApply(op, Str(parts.sign \o parts.body))
           /\ InnerSpace => ~NumAccepted

\* The operations that answer for floating-point text: the float and number
\* classifiers and the converters.
FloatOps ==
    {"is_float", "is_number", "to_number", "d_is_real", "d_is_number",
     "d_to_number"}

NanBody == LowerStr(parts.body) = <<"n", "a", "n">>

InfBody == LowerStr(parts.body) \in SpecialWords \ {<<"n", "a", "n">>}

\* C19: nan, in any letter case, is a number only without a sign: "+nan"
\* and "-nan" are rejected by every classifier and by to_number, while nan,
\* inf and infinity, the last two with or without a sign, are accepted by
\* the float and number classifiers and by to_number.
C19_SignedNanRejected ==
    /\ (op \in NumOps /\ NanBody /\ parts.sign # << >>) => ~NumAccepted
    /\ (op \in FloatOps /\ NanBody /\ parts.sign = << >>) => NumAccepted
    /\ (op \in FloatOps /\ InfBody) => NumAccepted

\* The digits a base letter admits, in either letter case.
BaseDigits(letter) ==
    CASE letter \in {"x", "X"} -> HexDigits \cup {"A", "B", "C", "D", "E", "F"}
      [] letter \in {"b", "B"} -> BinDigits
      [] letter \in {"o", "O"} -> OctDigits
      [] OTHER -> {}

\* The literal of the input is "0", a base letter and one or more digits of
\* that base.
NonDecimalShape ==
    /\ Len(parts.body) >= 3
    /\ parts.body[1] = "0"
    /\ AllIn(Sub(parts.body, 3, Len(parts.body)), BaseDigits(parts.body[2]))

C21_NonDecimalToNumber ==
    (op \in NumConverters /\ NonDecimalShape)
        => /\ res.kind = "ok"
           /\ res.v = NonDecimalValue(LowerStr(parts.sign \o parts.body))
           /\ format_number(res.v) = IntStr(res.v.m)

\* The input has no white space around the literal.
Unpadded == parts.wl = 0 /\ parts.wr = 0

\* The literal is a run of digits, an exponent marker and exponent digits
\* with an optional sign.
SciIntShape ==
    /\ ~HasDot(parts.body)
    /\ HasExp(parts.body, ExpMarks)
    /\ IsDigits1(Mantissa(parts.body, ExpMarks))
    /\ IsExpDigits(Exponent(parts.body, ExpMarks))

\* The literal is a run of digits and nothing else.
DigitsShape == IsDigits1(parts.body)

\* C22: digits immediately followed by an exponent marker and exponent
\* digits are a float and not an integer; the same digits without an
\* exponent are an integer and not a float.
C22_ScientificIsFloat ==
    /\ (op \in {"is_float", "d_is_real"} /\ Unpadded /\ SciIntShape) => res.v
    /\ (op \in {"is_int", "d_is_int"} /\ Unpadded /\ SciIntShape) => ~res.v
    /\ (op \in {"is_int", "d_is_int"} /\ Unpadded /\ DigitsShape) => res.v
    /\ (op \in {"is_float", "d_is_real"} /\ Unpadded /\ DigitsShape) => ~res.v

\* The literal is digits with exactly one decimal point among them and at
\* least one digit.
BasicFloatShape ==
    /\ Len(parts.body) >= 2
    /\ AllIn(parts.body, Digits \cup {"."})
    /\ Cardinality({i \in 1..Len(parts.body) : parts.body[i] = "."}) = 1

BasicFloatOps == {"flt_bsc_rlx_rgx", "d_is_real_basic"}

BasicFloatAccepted ==
    IF op = "flt_bsc_rlx_rgx" THEN res.kind = "match" ELSE res.v

\* C23: a string is a basic float exactly when it is an optional sign and
\* digits with exactly one decimal point that has a digit on at least one
\* of its sides.
C23_BasicFloatShape ==
    (op \in BasicFloatOps /\ Unpadded) => (BasicFloatAccepted <=> BasicFloatShape)

\* The decimal digits of the integer a run of digits denotes: the digits
\* without leading zeros.
RECURSIVE Canonical(_)
Canonical(ds) == IF Len(ds) > 1 /\ Head(ds) = "0" THEN Canonical(Tail(ds)) ELSE ds

ExactDigits ==
    (IF parts.sign = <<"-">> /\ Canonical(parts.body) # <<"0">> THEN <<"-">> ELSE << >>)
        \o Canonical(parts.body)

\* C24: format_number returns a string for every value the parser returns:
\* for an integer, whatever its magnitude, exactly its decimal digits; for a
\* float with an integral value digits only, with no point and no exponent;
\* for the special values inf, -inf and nan.
C24_FormatNumberCanonical ==
    op = "format_number"
        => /\ res.kind = "ok"
           /\ arg.py = "int" => res.v.s = ExactDigits
           /\ (arg.py = "float" /\ IsInteger(arg))
                 => AllIn(Unsigned(res.v.s), Digits) /\ res.v.s # << >>
           /\ arg.k = "inf" => res.v.s = <<"i", "n", "f">>
           /\ arg.k = "-inf" => res.v.s = <<"-", "i", "n", "f">>
           /\ arg.k = "nan" => res.v.s = <<"n", "a", "n">>

\* Two numbers of the same kind (both int or both float) and the same value.
SameNumber(a, b) ==
    /\ a.py = b.py
    /\ IF a.k = "fin" /\ b.k = "fin"
       THEN Normal(a).m = Normal(b).m /\ Normal(a).x = Normal(b).x
       ELSE a = b /\ a.k # "nan"

\* The formatted value is one that to_number of numbers.py returned.
FormattedParsed == op = "format_number" /\ to_number(Str(text)) = Return(arg)

\* C25: numeric round trip: the string format_number returns for a value
\* the parser produced is accepted by the parser, and parsing it gives a
\* number of the same kind and value.
C25_NumberRoundTrip ==
    LET Back(r) == r.kind = "ok" /\ SameNumber(r.v, arg)
    IN  FormattedParsed => Back(to_number(res.v))

\* C26: canonicalisation is idempotent: parsing the string format_number
\* returned and formatting the result gives the same string again.
C26_FormatIdempotent ==
    LET Again(r) == r.kind = "ok" /\ format_number(r.v) = res.v.s
    IN  FormattedParsed => Again(to_number(res.v))

\* C27: the three lookups of a subclass agree on every string:
\* is_valid_str is True exactly when maybe_from_str returns a member and
\* exactly when from_str does not raise; the member returned has a pattern
\* that fully matches the string; a string that fully matches no pattern of
\* any member makes from_str raise ValueError.
C27_LookupsAgree ==
    LET valid == is_valid_str(parts, text, None).v
        AnyMatch ==
            \E i \in 1..Len(parts.members) : \E k \in 1..Len(parts.members[i]) :
                fullmatch(parts.members[i][k], text)
    IN  /\ op = "is_valid_str"
            => /\ res.kind = "ok"
               /\ res.v <=> (maybe_from_str(parts, text).v # None)
               /\ res.v <=> (from_str(parts, text).kind = "ok")
        /\ op = "maybe_from_str"
            => /\ res.kind = "ok"
               /\ (res.v # None) <=> valid
               /\ (res.v # None) => is_valid_str(parts, text, res.v).v
        /\ op = "from_str"
            => /\ res.kind \in {"ok", "ValueError"}
               /\ res.kind = "ok" <=> valid
               /\ res.kind = "ok" => is_valid_str(parts, text, res.v).v
               /\ ~AnyMatch => res.kind = "ValueError"

C27_Witness ==
    /\ op = "from_str" /\ res.kind = "ok"
    /\ Len(parts.table) = 2
    /\ res.v.index = 2
    /\ text = "banana"

\* The bound is written as an integer / as a float.
WrittenInt(lit) == IsDigits1(Unsigned(lit)) \/ IsNonDecimal(Unsigned(lit))

BothInts == WrittenInt(parts.lo) /\ WrittenInt(parts.hi)

BothFloats == ~WrittenInt(parts.lo) /\ ~WrittenInt(parts.hi)

\* C28: the two bounds of an interval that to_interval returns are numbers
\* of one kind, both int or both float; for a valid interval string
\* is_int_interval of the parsed interval is True exactly when both bounds
\* are written as integers, and is_float_interval exactly when both are
\* written as floats.
C28_BoundsOfOneKind ==
    /\ (op \in IntervalOps /\ res.kind = "ok")
          => /\ res.v.start.py \in {"int", "float"}
             /\ res.v.start.py = res.v.end.py
    /\ (op = "is_int_interval" /\ ValidIntervalStr)
          => res.kind = "ok" /\ (res.v <=> BothInts)
    /\ (op = "is_float_interval" /\ ValidIntervalStr)
          => res.kind = "ok" /\ (res.v <=> BothFloats)

\* The input has no bracket on either side and an infinite bound.
BracketlessInfinite ==
    /\ parts.lb = << >> /\ parts.rb = << >>
    /\ GrammarValid /\ NoNaN /\ BoundsOrdered
    /\ Lo.k = "-inf" \/ Hi.k = "inf"

\* C29: an interval string without brackets and with an infinite bound is
\* accepted, and the end at the infinite bound defaults to exclusive.
C29_InfiniteDefaultOpen ==
    /\ (op = "extract_interval_elements" /\ BracketlessInfinite)
          => /\ res.kind = "ok"
             /\ Lo.k = "-inf" => res.v.lb = Str(<<"(">>)
             /\ Hi.k = "inf" => res.v.rb = Str(<<")">>)
    /\ (op = "d_to_interval" /\ BracketlessInfinite)
          => /\ res.kind = "ok"
             /\ Lo.k = "-inf" => res.v.left_open
             /\ Hi.k = "inf" => res.v.right_open

\* C30: a string with whitespace on both sides of the two-dot separator is
\* accepted whenever the same string without that whitespace is, and the
\* parse (bounds and inclusivity) is the same.
C30_SpacedSeparatorSameParse ==
    (/\ op \in PatternOps \cup ParserOps
     /\ Spaced
     /\ parts.dots = 2
     /\ AcceptedBy(op, Apply(op, UnspacedForm)))
        => /\ Accepted
           /\ op \in ParserOps => res = Apply(op, UnspacedForm)

====
